---- MODULE Spec2Model ----
(***************************************************************************)
(* Model of Emergency-Response-Agent/app.py: the IntegratedAgentManager,   *)
(* the lazy get_coordinator, and the JSON API handlers that bridge the     *)
(* asynchronous agents into Flask's synchronous request cycle.             *)
(*                                                                         *)
(* An object reference is a natural number: 0 is Python's None, k > 0 is   *)
(* the k-th instance constructed.  The agent classes are plain classes,    *)
(* so an instance is truthy and None is falsy.                             *)
(* A JSON object is a function from the keys it has to abstract values:    *)
(* "NONE" (null), "EMPTY" (""), "TEXT" (a non-empty string) for free text, *)
(* "BAD"/"GOOD" for a value a conversion rejects/accepts.                  *)
(* "Exception" below means a subclass of Exception, which is what the      *)
(* handlers' except clauses catch.                                         *)
(***************************************************************************)
EXTENDS Integers, Sequences, FiniteSets, TLC

\* ---------------------------------------------------------------- bounds
NumThreads == 2
MaxPolicies == 2

Threads == 1..NumThreads

\* ------------------------------------------------------- values and dicts
IsNone(x) == x = 0

\* Python truthiness of an object reference (None is falsy).
TruthyObj(x) == ~IsNone(x)

\* Python truthiness of an abstract JSON value.
TruthyVal(v) == v \notin {"NONE", "EMPTY"}

TextVals == {"NONE", "EMPTY", "TEXT"}
ConvVals == {"BAD", "GOOD"}

\* All JSON objects over the keys K with values in V (any subset of keys).
Dicts(K, V) == UNION {[S -> V] : S \in SUBSET K}

EmptyDict == CHOOSE d \in Dicts({}, TextVals) : TRUE

\* dict.get(k) with the default None
DictGet(d, k) == IF k \in DOMAIN d THEN d[k] ELSE "NONE"

\* What request.get_json() hands to the handler:
\*   "malformed": get_json() raises (BadRequest / UnsupportedMediaType)
\*   "null"     : the body is JSON null, data is None
\*   "list"     : the body is a JSON array, data has no .get
\*   "dict"     : the body is a JSON object
BodyKinds == {"malformed", "null", "list", "dict"}

Bodies(K, V) ==
    {[kind |-> k, data |-> EmptyDict] : k \in BodyKinds \ {"dict"}}
    \cup {[kind |-> "dict", data |-> d] : d \in Dicts(K, V)}

NoBody == [kind |-> "none", data |-> EmptyDict]

\* data = request.get_json(); data.get(...) raises unless data is a dict
GetRaises(body) == body.kind # "dict"

Outcomes == {"ok", "raise"}

\* ------------------------------------------------------- event loops
\* Index of the first coroutine that raises, 0 when none does.
FirstRaise(outcomes) ==
    IF \E i \in 1..Len(outcomes) : outcomes[i] = "raise"
    THEN CHOOSE i \in 1..Len(outcomes) :
            /\ outcomes[i] = "raise"
            /\ \A j \in 1..(i - 1) : outcomes[j] = "ok"
    ELSE 0

\* A slip that closes the loop after the try block instead of in a finally.
RunLoopNoFinally(forAgent, argsOk, outcomes) ==
    LET fr == FirstRaise(outcomes)
        runs == IF ~argsOk THEN 0 ELSE IF fr = 0 THEN Len(outcomes) ELSE fr
        raised == ~argsOk \/ fr # 0
    IN [loop |-> [for |-> forAgent, runs |-> runs, closed |-> ~raised],
        raised |-> raised]

\* loop = asyncio.new_event_loop(); asyncio.set_event_loop(loop)
\* try:    <evaluate the arguments>; loop.run_until_complete(...) for each
\*         coroutine in turn
\* finally: loop.close()
\* argsOk: the argument expressions evaluated inside the try do not raise.
\* The result is the loop's record and whether the try block raised.
RunLoop(forAgent, argsOk, outcomes) ==
    LET fr == FirstRaise(outcomes)
        runs == IF ~argsOk THEN 0 ELSE IF fr = 0 THEN Len(outcomes) ELSE fr
        raised == ~argsOk \/ fr # 0
    IN [loop |-> [for |-> forAgent, runs |-> runs, closed |-> TRUE],
        raised |-> raised]

\* ------------------------------------------------------- responses
\* A response: the HTTP status, the JSON 'success' member, how the handler
\* was left ("return": a return of the try block, "except": the return of
\* the except clause, "escaped": an exception left the handler), and the
\* event loops the request created with the agent calls made on them.
\* error is the 'error' member ("NONE" when the document has none, "str(e)"
\* for the text of a caught exception).
Response(route, status, success, error, via, loops) ==
    [route |-> route, status |-> status, success |-> success, error |-> error,
     via |-> via, loops |-> loops]

\* A slip that answers every caught exception with 500.
ExceptStatusAll500(route) == 500

\* The status of the handler's `except Exception` clause.

ExceptStatus(route) ==
    IF route \in {"scenarios", "weather"} THEN 400 ELSE 500

Except(route, loops) ==
    Response(route, ExceptStatus(route), FALSE, "str(e)", "except", loops)

Return(route, status, success, error, loops) ==
    Response(route, status, success, error, "return", loops)

\* ------------------------------------------------------- the manager
\* IntegratedAgentManager.__init__
NewManager ==
    [coordinator |-> 0, policy_checker |-> 0, citizen_assistant |-> 0,
     document_agent |-> 0, initialized |-> FALSE]

\* Where the first try block of initialize() raises ("none": nowhere), and
\* where its fallback raises.
FailPoints ==
    {"none", "coord_ctor", "coord_init", "policy_ctor", "policy_init",
     "citizen_ctor", "citizen_init", "document_ctor", "document_init"}
FallbackFailPoints == {"none", "ctor", "init"}

\* A slip that sets the flag at the top of the fallback, before the
\* coordinator is there.
InitializeFallbackFlagFirst(m, n, fbFail) ==
    LET m0 == [m EXCEPT !.initialized = TRUE]
    IN  IF fbFail = "ctor"
        THEN [mgr |-> m0, n |-> n, result |-> FALSE]
        ELSE [mgr |-> [m0 EXCEPT !.coordinator = n + 1], n |-> n + 1,
              result |-> fbFail # "init"]

\* The fallback of initialize(): a new coordinator, initialized, or False.
\* m: the manager as the failed try block left it; n: coordinators built.
InitializeFallback(m, n, fbFail) ==
    IF fbFail = "ctor"
    THEN [mgr |-> m, n |-> n, result |-> FALSE]
    ELSE LET m1 == [m EXCEPT !.coordinator = n + 1]
         IN IF fbFail = "init"
            THEN [mgr |-> m1, n |-> n + 1, result |-> FALSE]
            ELSE [mgr |-> [m1 EXCEPT !.initialized = TRUE], n |-> n + 1,
                  result |-> TRUE]

\* One optional agent of initialize(): `if Cls and cls_available:` then the
\* field is assigned the new instance and the instance is initialized.
\* The result is the manager and whether an exception was raised.
InitAgent(m, field, isImported, failAt, ctorPoint, initPoint) ==
    IF ~isImported THEN [mgr |-> m, raised |-> FALSE]
    ELSE IF failAt = ctorPoint THEN [mgr |-> m, raised |-> TRUE]
    ELSE [mgr |-> [m EXCEPT ![field] = 1], raised |-> failAt = initPoint]

\* IntegratedAgentManager.initialize
initialize(m, n, imp, failAt, fbFail) ==
    IF failAt = "coord_ctor" THEN InitializeFallback(m, n, fbFail)
    ELSE
    LET m1 == [m EXCEPT !.coordinator = n + 1]
        n1 == n + 1
    IN  IF failAt = "coord_init" THEN InitializeFallback(m1, n1, fbFail)
        ELSE
        LET a2 == InitAgent(m1, "policy_checker", imp.policy_checker, failAt,
                            "policy_ctor", "policy_init")
        IN  IF a2.raised THEN InitializeFallback(a2.mgr, n1, fbFail)
            ELSE
            LET a3 == InitAgent(a2.mgr, "citizen_assistant",
                                imp.citizen_assistant, failAt,
                                "citizen_ctor", "citizen_init")
            IN  IF a3.raised THEN InitializeFallback(a3.mgr, n1, fbFail)
                ELSE
                LET a4 == InitAgent(a3.mgr, "document_agent",
                                    imp.document_agent, failAt,
                                    "document_ctor", "document_init")
                IN  IF a4.raised THEN InitializeFallback(a4.mgr, n1, fbFail)
                    ELSE [mgr |-> [a4.mgr EXCEPT !.initialized = TRUE],
                          n |-> n1, result |-> TRUE]

\* ------------------------------------------------------- atomic handlers
PolicyBodies == Bodies({"document_path", "policy_text"}, TextVals)
CitizenBodies == Bodies({"message"}, TextVals)
DocumentBodies == Bodies({"document_type", "document_content"}, TextVals)

\* A slip that reads and validates the body before looking at the agent.
api_policy_analyze_InputFirst(m, body, outcome, shapeOk) ==
    IF GetRaises(body) THEN Except("policy_analyze", <<>>)
    ELSE
    LET document_path == DictGet(body.data, "document_path")
        policy_text == DictGet(body.data, "policy_text")
    IN  IF ~TruthyVal(document_path) /\ ~TruthyVal(policy_text)
        THEN Return("policy_analyze", 400, FALSE, "Either document_path or policy_text required", <<>>)
        ELSE IF ~TruthyObj(m.policy_checker)
        THEN Return("policy_analyze", 503, FALSE, "Policy Compliance Checker not available", <<>>)
        ELSE
        LET l == RunLoop("policy_checker", TRUE, <<outcome>>)
        IN  IF l.raised \/ ~shapeOk
            THEN Except("policy_analyze", <<l.loop>>)
            ELSE Return("policy_analyze", 200, TRUE, "NONE", <<l.loop>>)

\* api_policy_analyze.  outcome: what the agent coroutine does; shapeOk:
\* jsonify of the result does not raise.
api_policy_analyze(m, body, outcome, shapeOk) ==
    IF ~TruthyObj(m.policy_checker)
    THEN Return("policy_analyze", 503, FALSE, "Policy Compliance Checker not available", <<>>)
    ELSE IF GetRaises(body) THEN Except("policy_analyze", <<>>)
    ELSE
    LET document_path == DictGet(body.data, "document_path")
        policy_text == DictGet(body.data, "policy_text")
    IN  IF ~TruthyVal(document_path) /\ ~TruthyVal(policy_text)
        THEN Return("policy_analyze", 400, FALSE, "Either document_path or policy_text required", <<>>)
        ELSE
        LET l == RunLoop("policy_checker", TRUE, <<outcome>>)
        IN  IF l.raised \/ ~shapeOk
            THEN Except("policy_analyze", <<l.loop>>)
            ELSE Return("policy_analyze", 200, TRUE, "NONE", <<l.loop>>)

\* api_citizen_chat
api_citizen_chat(m, body, outcome, shapeOk) ==
    IF ~TruthyObj(m.citizen_assistant)
    THEN Return("citizen_chat", 503, FALSE, "Virtual Citizen Assistant not available", <<>>)
    ELSE IF GetRaises(body) THEN Except("citizen_chat", <<>>)
    ELSE
    LET message == DictGet(body.data, "message")
    IN  IF ~TruthyVal(message)
        THEN Return("citizen_chat", 400, FALSE, "Message required", <<>>)
        ELSE
        LET l == RunLoop("citizen_assistant", TRUE, <<outcome>>)
        IN  IF l.raised \/ ~shapeOk
            THEN Except("citizen_chat", <<l.loop>>)
            ELSE Return("citizen_chat", 200, TRUE, "NONE", <<l.loop>>)

\* api_document_process
api_document_process(m, body, outcome, shapeOk) ==
    IF ~TruthyObj(m.document_agent)
    THEN Return("document_process", 503, FALSE, "Document Eligibility Agent not available", <<>>)
    ELSE IF GetRaises(body) THEN Except("document_process", <<>>)
    ELSE
    LET document_type == DictGet(body.data, "document_type")
        document_content == DictGet(body.data, "document_content")
    IN  IF ~TruthyVal(document_type) \/ ~TruthyVal(document_content)
        THEN Return("document_process", 400, FALSE, "Document type and content required", <<>>)
        ELSE
        LET l == RunLoop("document_agent", TRUE, <<outcome>>)
        IN  IF l.raised \/ ~shapeOk
            THEN Except("document_process", <<l.loop>>)
            ELSE Return("document_process", 200, TRUE, "NONE", <<l.loop>>)

\* ------------------------------------------------------- collaborate
TaskTypes == {"ABSENT", "emergency_policy_check", "other"}

\* task_data: absent (the default {}), null, or an object with a 'scenario'
\* (absent, rejected or accepted by EmergencyScenario) and a list of
\* 'policies' (absent is the default []), given by its length.
TaskDatas ==
    {[kind |-> k, scenario |-> "ABSENT", policies |-> 0] :
        k \in {"absent", "null"}}
    \cup {[kind |-> "dict", scenario |-> sc, policies |-> n] :
            sc \in {"ABSENT"} \cup ConvVals, n \in 0..MaxPolicies}

CollabBodies ==
    {[kind |-> k, task_type |-> "ABSENT",
      task_data |-> [kind |-> "absent", scenario |-> "ABSENT", policies |-> 0]] :
        k \in BodyKinds \ {"dict"}}
    \cup {[kind |-> "dict", task_type |-> tt, task_data |-> td] :
            tt \in TaskTypes, td \in TaskDatas}

\* A slip that opens a loop for each policy.
CollabPolicyLoopsPerPolicy(outcomes) ==
    LET fr == FirstRaise(outcomes)
        k == IF fr = 0 THEN Len(outcomes) ELSE fr
    IN  [loops |-> [i \in 1..k |->
                      RunLoop("policy_checker", TRUE, <<outcomes[i]>>).loop],
         raised |-> fr # 0]

\* The policy block of api_agents_collaborate: one loop, on which every
\* policy is analysed in turn.
CollabPolicyLoops(outcomes) ==
    LET l == RunLoop("policy_checker", TRUE, outcomes)
    IN  [loops |-> <<l.loop>>, raised |-> l.raised]

\* api_agents_collaborate.  scenOutcome: what coordinate_response does;
\* polOutcomes: what analyze_policy_text does for each policy.
api_agents_collaborate(m, body, scenOutcome, polOutcomes, shapeOk) ==
    IF GetRaises(body) THEN Except("collaborate", <<>>)
    ELSE IF body.task_type # "emergency_policy_check"
    THEN Return("collaborate", 400, FALSE, "Unknown task type", <<>>)
    ELSE IF body.task_data.kind = "null" THEN Except("collaborate", <<>>)
    ELSE
    LET scenario_data == body.task_data.scenario
        nPolicies == body.task_data.policies
        first ==
            IF ~TruthyObj(m.coordinator)
            THEN [loops |-> <<>>, raised |-> FALSE]
            ELSE IF scenario_data # "GOOD"
            THEN [loops |-> <<>>, raised |-> TRUE]
            ELSE LET l == RunLoop("coordinator", TRUE, <<scenOutcome>>)
                 IN  [loops |-> <<l.loop>>, raised |-> l.raised]
    IN  IF first.raised THEN Except("collaborate", first.loops)
        ELSE
        LET second ==
                IF TruthyObj(m.policy_checker) /\ nPolicies > 0
                THEN CollabPolicyLoops(SubSeq(polOutcomes, 1, nPolicies))
                ELSE [loops |-> <<>>, raised |-> FALSE]
            loops == first.loops \o second.loops
        IN  IF second.raised \/ ~shapeOk
            THEN Except("collaborate", loops)
            ELSE Return("collaborate", 200, TRUE, "NONE", loops)

\* ------------------------------------------------------- status
Status(x) == IF TruthyObj(x) THEN "active" ELSE "unavailable"

\* api_agents_status: the JSON document it returns.
api_agents_status(m) ==
    [emergency_response |->
        [available |-> ~IsNone(m.coordinator), status |-> Status(m.coordinator)],
     policy_compliance |->
        [available |-> ~IsNone(m.policy_checker),
         status |-> Status(m.policy_checker)],
     citizen_assistant |->
        [available |-> ~IsNone(m.citizen_assistant),
         status |-> Status(m.citizen_assistant)],
     document_eligibility |->
        [available |-> ~IsNone(m.document_agent),
         status |-> Status(m.document_agent)],
     system_status |-> IF m.initialized THEN "operational" ELSE "initializing"]

\* ------------------------------------------------------- scenarios
ScenarioKeys ==
    {"incident_type", "severity_level", "location", "affected_area_radius",
     "estimated_population_affected", "duration_hours"}
\* A body every conversion accepts, and the bodies that differ from it in
\* one key (the key missing, or its value rejected), and the non-objects.
CompleteScenario == [k \in ScenarioKeys |-> "GOOD"]
ScenarioBodies ==
    {[kind |-> k, data |-> EmptyDict] : k \in BodyKinds \ {"dict"}}
    \cup {[kind |-> "dict", data |-> CompleteScenario]}
    \cup {[kind |-> "dict", data |-> [CompleteScenario EXCEPT ![k] = "BAD"]] :
            k \in ScenarioKeys}
    \cup {[kind |-> "dict",
           data |-> [j \in ScenarioKeys \ {k} |-> "GOOD"]] : k \in ScenarioKeys}

\* data[k] raises KeyError when the key is missing; the conversion applied
\* to it raises on a value it rejects.
Converts(d, k) == k \in DOMAIN d /\ d[k] = "GOOD"

\* The construction of the EmergencyScenario in api_create_scenario raises.
ScenarioRaises(body) ==
    \/ GetRaises(body)
    \/ ~Converts(body.data, "incident_type")
    \/ ~Converts(body.data, "severity_level")
    \/ "location" \notin DOMAIN body.data
    \/ ~Converts(body.data, "affected_area_radius")
    \/ ~Converts(body.data, "estimated_population_affected")
    \/ ("duration_hours" \in DOMAIN body.data
            /\ body.data["duration_hours"] # "GOOD")

\* The part of api_create_scenario and api_get_weather after get_coordinator:
\* the loop, the coroutine, and the shaping of the result.
\* argsOk: float(lat) and float(lon), evaluated inside the try, do not raise.
RunWithCoordinator(route, argsOk, outcome, shapeOk) ==
    LET l == RunLoop("coordinator", argsOk, <<outcome>>)
    IN  IF l.raised \/ ~shapeOk
        THEN Except(route, <<l.loop>>)
        ELSE Return(route, 200, TRUE, "NONE", <<l.loop>>)

\* agents_hub: the agent_status handed to the template.
agents_hub(m) ==
    [emergency_response |-> ~IsNone(m.coordinator),
     policy_compliance |-> ~IsNone(m.policy_checker),
     citizen_assistant |-> ~IsNone(m.citizen_assistant),
     document_eligibility |-> ~IsNone(m.document_agent)]

\* float(s) of a path segment
FloatOk(s) == s = "GOOD"

\* get_coordinator, run by one thread without interruption.  n: the
\* coordinators built so far; ctorOk: the constructor does not raise.
get_coordinator(m, n, ctorOk) ==
    IF ~IsNone(m.coordinator)
    THEN [mgr |-> m, n |-> n, raised |-> FALSE, value |-> m.coordinator]
    ELSE IF ~ctorOk
    THEN [mgr |-> m, n |-> n, raised |-> TRUE, value |-> 0]
    ELSE [mgr |-> [m EXCEPT !.coordinator = n + 1], n |-> n + 1,
          raised |-> FALSE, value |-> n + 1]

\* The optional imports at module load: which of the three agent classes
\* were imported (the class is bound and its *_available flag is True).
ImportOutcomes ==
    [{"policy_checker", "citizen_assistant", "document_agent"} -> BOOLEAN]

\* ------------------------------------------------------- state
VARIABLES
    manager,        \* agent_manager
    phase,          \* "loaded": module imported; "serving": requests accepted
    nCoordinators,  \* EmergencyResponseCoordinator instances constructed
    returned,       \* the values get_coordinator has returned
    pc,             \* per request thread: where its handler stands
    local,          \* per request thread: the route of its handler
    resp            \* the response sent last, with its request

vars == <<manager, phase, nCoordinators, returned, pc, local, resp>>

\* The record of a finished request: the response r, the request body, the
\* manager as the handler saw it, and for the weather route whether lat and
\* lon are floats; json is the document of the status routes.
Sent(r, body, m, argsOk, json) ==
    [r |-> r, body |-> body, mgr |-> m, argsOk |-> argsOk, json |-> json]

Init ==
    /\ manager = NewManager
    /\ phase = "loaded"
    /\ nCoordinators = 0
    /\ returned = {}
    /\ pc = [t \in Threads |-> "idle"]
    /\ local = [t \in Threads |-> "none"]
    /\ resp = Sent(Response("none", 0, FALSE, "NONE", "none", <<>>), NoBody,
                   NewManager, TRUE, "NONE")

\* The __main__ block: initialize() on its own loop, then app.run().
Main ==
    /\ phase = "loaded"
    /\ \E imp \in ImportOutcomes, failAt \in FailPoints,
          fbFail \in FallbackFailPoints :
        LET i == initialize(manager, nCoordinators, imp, failAt, fbFail)
        IN  /\ manager' = i.mgr
            /\ nCoordinators' = i.n
    /\ phase' = "serving"
    /\ UNCHANGED <<returned, pc, local, resp>>

\* The module is imported by a server instead: no __main__ block runs.
ServeImported ==
    /\ phase = "loaded"
    /\ phase' = "serving"
    /\ UNCHANGED <<manager, nCoordinators, returned, pc, local, resp>>

\* ------------------------------------------- requests, one at a time
Serving == phase = "serving" /\ \A t \in Threads : pc[t] = "idle"

\* A handler that leaves the manager alone.
Answer(r, body, json) ==
    /\ resp' = Sent(r, body, manager, TRUE, json)
    /\ UNCHANGED <<manager, phase, nCoordinators, returned, pc, local>>

PolicyAnalyze ==
    /\ Serving
    /\ \E body \in PolicyBodies, outcome \in Outcomes, shapeOk \in BOOLEAN :
        Answer(api_policy_analyze(manager, body, outcome, shapeOk), body, "NONE")

CitizenChat ==
    /\ Serving
    /\ \E body \in CitizenBodies, outcome \in Outcomes, shapeOk \in BOOLEAN :
        Answer(api_citizen_chat(manager, body, outcome, shapeOk), body, "NONE")

DocumentProcess ==
    /\ Serving
    /\ \E body \in DocumentBodies, outcome \in Outcomes, shapeOk \in BOOLEAN :
        Answer(api_document_process(manager, body, outcome, shapeOk), body,
               "NONE")

AgentsCollaborate ==
    /\ Serving
    /\ \E body \in CollabBodies, scenOutcome \in Outcomes, shapeOk \in BOOLEAN :
       \E polOutcomes \in [1..body.task_data.policies -> Outcomes] :
        Answer(api_agents_collaborate(manager, body, scenOutcome, polOutcomes,
                                      shapeOk), body, "NONE")

AgentsStatus ==
    /\ Serving
    /\ Answer(Response("agents_status", 200, TRUE, "NONE", "return", <<>>),
              NoBody, api_agents_status(manager))

AgentsHub ==
    /\ Serving
    /\ Answer(Response("agents_hub", 200, TRUE, "NONE", "return", <<>>),
              NoBody, agents_hub(manager))

\* A handler that calls get_coordinator: the parse before it (parseOk), the
\* call, and the rest of the handler.
AnswerWithCoordinator(route, parseOk, argsOk, ctorOk, outcome, shapeOk) ==
    IF ~parseOk
    THEN /\ resp' = Sent(Except(route, <<>>), NoBody, manager, argsOk, "NONE")
         /\ UNCHANGED <<manager, nCoordinators, returned>>
    ELSE LET g == get_coordinator(manager, nCoordinators, ctorOk)
         IN  /\ manager' = g.mgr
             /\ nCoordinators' = g.n
             /\ IF g.raised
                THEN /\ resp' = Sent(Except(route, <<>>), NoBody, g.mgr,
                                     argsOk, "NONE")
                     /\ UNCHANGED returned
                ELSE /\ resp' = Sent(RunWithCoordinator(route, argsOk, outcome,
                                                        shapeOk),
                                     NoBody, g.mgr, argsOk, "NONE")
                     /\ returned' = returned \cup {g.value}

\* api_create_scenario
CreateScenario ==
    /\ Serving
    /\ \E body \in ScenarioBodies, ctorOk \in BOOLEAN, outcome \in Outcomes,
          shapeOk \in BOOLEAN :
        AnswerWithCoordinator("scenarios", ~ScenarioRaises(body), TRUE, ctorOk,
                              outcome, shapeOk)
    /\ UNCHANGED <<phase, pc, local>>

\* api_get_weather
GetWeather ==
    /\ Serving
    /\ \E lat \in ConvVals, lon \in ConvVals, ctorOk \in BOOLEAN,
          outcome \in Outcomes, shapeOk \in BOOLEAN :
        AnswerWithCoordinator("weather", TRUE, FloatOk(lat) /\ FloatOk(lon),
                              ctorOk, outcome, shapeOk)
    /\ UNCHANGED <<phase, pc, local>>

Next ==
    \/ ServeImported
    \/ Main
    \/ CreateScenario
    \/ GetWeather
    \/ PolicyAnalyze
    \/ CitizenChat
    \/ DocumentProcess
    \/ AgentsCollaborate
    \/ AgentsStatus
    \/ AgentsHub

Spec == Init /\ [][Next]_vars

\* ------------------------------------------- requests on threads
\* The handlers that call get_coordinator, run by concurrent request
\* threads; a thread may be interrupted between the statements of
\* get_coordinator.

\* api_create_scenario up to the call of get_coordinator.
CreateScenarioStart(t) ==
    /\ phase = "serving" /\ pc[t] = "idle"
    /\ \E body \in ScenarioBodies :
        IF ScenarioRaises(body)
        THEN /\ resp' = Sent(Except("scenarios", <<>>), NoBody, manager, TRUE,
                             "NONE")
             /\ UNCHANGED <<pc, local>>
        ELSE /\ pc' = [pc EXCEPT ![t] = "gc_check"]
             /\ local' = [local EXCEPT ![t] = "scenarios"]
             /\ UNCHANGED resp
    /\ UNCHANGED <<manager, phase, nCoordinators, returned>>

\* api_get_weather up to the call of get_coordinator.
GetWeatherStart(t) ==
    /\ phase = "serving" /\ pc[t] = "idle"
    /\ local' = [local EXCEPT ![t] = "weather"]
    /\ pc' = [pc EXCEPT ![t] = "gc_check"]
    /\ UNCHANGED <<manager, phase, nCoordinators, returned, resp>>

\* get_coordinator: `if agent_manager.coordinator is None:`
GetCoordinatorCheck(t) ==
    /\ pc[t] = "gc_check"
    /\ pc' = [pc EXCEPT ![t] = IF IsNone(manager.coordinator)
                               THEN "gc_create" ELSE "gc_return"]
    /\ UNCHANGED <<manager, phase, nCoordinators, returned, local, resp>>

\* get_coordinator: `agent_manager.coordinator = EmergencyResponseCoordinator()`
\* The constructor may raise, which the handler's except clause answers.
GetCoordinatorCreate(t) ==
    /\ pc[t] = "gc_create"
    /\ \E ctorOk \in BOOLEAN :
        IF ctorOk
        THEN /\ nCoordinators' = nCoordinators + 1
             /\ manager' = [manager EXCEPT !.coordinator = nCoordinators + 1]
             /\ pc' = [pc EXCEPT ![t] = "gc_return"]
             /\ UNCHANGED <<local, resp>>
        ELSE /\ resp' = Sent(Except(local[t], <<>>), NoBody, manager, TRUE,
                             "NONE")
             /\ pc' = [pc EXCEPT ![t] = "idle"]
             /\ local' = [local EXCEPT ![t] = "none"]
             /\ UNCHANGED <<manager, nCoordinators>>
    /\ UNCHANGED <<phase, returned>>

\* get_coordinator: `return agent_manager.coordinator`
GetCoordinatorReturn(t) ==
    /\ pc[t] = "gc_return"
    /\ returned' = returned \cup {manager.coordinator}
    /\ pc' = [pc EXCEPT ![t] = "run"]
    /\ UNCHANGED <<manager, phase, nCoordinators, local, resp>>

\* The rest of api_create_scenario and api_get_weather.
RunHandler(t) ==
    /\ pc[t] = "run"
    /\ \E lat \in ConvVals, lon \in ConvVals, outcome \in Outcomes,
          shapeOk \in BOOLEAN :
        LET argsOk == local[t] = "scenarios" \/ (FloatOk(lat) /\ FloatOk(lon))
        IN  resp' = Sent(RunWithCoordinator(local[t], argsOk, outcome, shapeOk),
                         NoBody, manager, argsOk, "NONE")
    /\ pc' = [pc EXCEPT ![t] = "idle"]
    /\ local' = [local EXCEPT ![t] = "none"]
    /\ UNCHANGED <<manager, phase, nCoordinators, returned>>

NextThreads ==
    \/ ServeImported
    \/ Main
    \/ \E t \in Threads : CreateScenarioStart(t)
    \/ \E t \in Threads : GetWeatherStart(t)
    \/ \E t \in Threads : GetCoordinatorCheck(t)
    \/ \E t \in Threads : GetCoordinatorCreate(t)
    \/ \E t \in Threads : GetCoordinatorReturn(t)
    \/ \E t \in Threads : RunHandler(t)

SpecThreads == Init /\ [][NextThreads]_vars

\* ------------------------------------------------------- properties
LoopRoutes ==
    {"scenarios", "weather", "policy_analyze", "citizen_chat",
     "document_process", "collaborate"}

LoopsOf(r) == {r.loops[i] : i \in 1..Len(r.loops)}

\* C1: when a handler has returned its response, every event loop the
\* request created is closed, also when the coroutine run on it raised.
C1_LoopsClosed ==
    resp.r.route \in LoopRoutes => \A l \in LoopsOf(resp.r) : l.closed

\* A request whose coroutine raised on its loop, answered by the except
\* clause.
C1_Witness ==
    /\ resp.r.route \in LoopRoutes
    /\ resp.r.via = "except"
    /\ \E l \in LoopsOf(resp.r) : l.closed

C3_SameCoordinator ==
    /\ 0 \notin returned
    /\ Cardinality(returned) <= 1

AgentField(route) ==
    CASE route = "policy_analyze" -> "policy_checker"
      [] route = "citizen_chat" -> "citizen_assistant"
      [] route = "document_process" -> "document_agent"

NotAvailable(route) ==
    CASE route = "policy_analyze" -> "Policy Compliance Checker not available"
      [] route = "citizen_chat" -> "Virtual Citizen Assistant not available"
      [] route = "document_process" -> "Document Eligibility Agent not available"

AgentRoutes == {"policy_analyze", "citizen_chat", "document_process"}

\* C4: when the agent of the policy, citizen or document route is None, the
\* answer is 503 with success False and the 'not available' error, whatever
\* the body is, and no loop is created (so no agent method is invoked).
C4_Unavailable503 ==
    (resp.r.route \in AgentRoutes /\ IsNone(resp.mgr[AgentField(resp.r.route)]))
        => /\ resp.r.status = 503
           /\ resp.r.success = FALSE
           /\ resp.r.error = NotAvailable(resp.r.route)
           /\ resp.r.loops = <<>>

\* The body of a request lacks the input its route requires.
LacksInput(route, body) ==
    \/ body.kind # "dict"
    \/ CASE route = "policy_analyze" ->
                /\ ~TruthyVal(DictGet(body.data, "document_path"))
                /\ ~TruthyVal(DictGet(body.data, "policy_text"))
         [] route = "citizen_chat" -> ~TruthyVal(DictGet(body.data, "message"))
         [] route = "document_process" ->
                \/ ~TruthyVal(DictGet(body.data, "document_type"))
                \/ ~TruthyVal(DictGet(body.data, "document_content"))

\* A request without its agent and without its input: 503, not 400.
C4_Witness ==
    /\ resp.r.route \in AgentRoutes
    /\ IsNone(resp.mgr[AgentField(resp.r.route)])
    /\ LacksInput(resp.r.route, resp.body)
    /\ resp.r.status = 503

\* C5: when the agent is available, a request that lacks the required input
\* is answered 400, for every shape of body, and creates no loop.
C5_MissingInput400 ==
    (/\ resp.r.route \in AgentRoutes
     /\ ~IsNone(resp.mgr[AgentField(resp.r.route)])
     /\ LacksInput(resp.r.route, resp.body))
        => /\ resp.r.status = 400
           /\ resp.r.loops = <<>>

====
